---- MODULE Spec2Model ----
(***************************************************************************)
(* Macro automation engine (MacroV2.0_PyQt6.py, with the Tkinter versions  *)
(* sharing the same dispatcher and loop structure).                        *)
(*                                                                         *)
(* Threads of the program that the model interleaves:                      *)
(*   - the keyboard listener thread, running _on_key_press (dispatcher);   *)
(*   - the mouse listener thread, running _on_mouse_click;                 *)
(*   - the GUI thread, running the widget callbacks and closeEvent;        *)
(*   - the Execution Loop threads, running _execute_macro.                 *)
(* A step of a thread holds at most one write of an engine flag; every    *)
(* time.sleep lies between two steps of a thread, where any other thread   *)
(* may run.                                                                *)
(*                                                                         *)
(* Strings are sequences of one-character strings, so that lower(),        *)
(* lstrip("_") and str(key) are computed and not assumed.                  *)
(***************************************************************************)
EXTENDS Integers, Sequences, FiniteSets, TLC

(***************************************************************************)
(* Bounds of the model.                                                    *)
(***************************************************************************)
\* Number of Execution Loop thread slots (threads alive at the same time).
MaxLoops == 2
\* Cap of the per-loop history counter of actions performed after a stop.
MaxPostStop == 2

(***************************************************************************)
(* Program constants.                                                      *)
(***************************************************************************)
DefaultClickDelayMs == 100
DefaultHoldDurationMs == 500
DelaySpinMin == 1
HoldSpinMin == 50
DelaySpinMax == 10000
HoldSpinMax == 999999999

\* Values the user enters in the two spin boxes (within the widget ranges).
DelayValues == {DelaySpinMin, DefaultClickDelayMs}
HoldValues == {HoldSpinMin, DefaultHoldDurationMs}

(***************************************************************************)
(* Strings and key tokens.                                                 *)
(***************************************************************************)
LowerChar(c) ==
    CASE c = "A" -> "a"
      [] c = "F" -> "f"
      [] c = "S" -> "s"
      [] OTHER -> c

RECURSIVE LowerStr(_)
LowerStr(s) == IF s = <<>> THEN <<>> ELSE <<LowerChar(Head(s))>> \o LowerStr(Tail(s))

\* str.strip(): leading and trailing blanks removed.
RECURSIVE LStripBlank(_)
LStripBlank(s) == IF s # <<>> /\ Head(s) = " " THEN LStripBlank(Tail(s)) ELSE s

RECURSIVE RStripBlank(_)
RStripBlank(s) ==
    IF s # <<>> /\ s[Len(s)] = " " THEN RStripBlank(SubSeq(s, 1, Len(s) - 1)) ELSE s

StripStr(s) == RStripBlank(LStripBlank(s))

RECURSIVE LStripUnderscore(_)
LStripUnderscore(s) ==
    IF s # <<>> /\ Head(s) = "_" THEN LStripUnderscore(Tail(s)) ELSE s

\* Names of the members of pynput's Key enum that the model uses.
KeyEnumNames ==
    {<<"f", "1">>, <<"f", "2">>, <<"f", "3">>, <<"s", "h", "i", "f", "t">>}
\* Names getattr finds on the Key class that are no members of the enum:
\* attributes every class has.
KeyClassAttrs == {<<"m", "r", "o">>}

\* A member of the Key enum (has .name), a KeyCode built from a character
\* (has no .name; str() gives the quoted character), a raw Python str.
KeyMember(n) == [t |-> "Key", s |-> n]
\* What getattr returns for a class attribute: an object that is no key.
ClassAttr(n) == [t |-> "attr", s |-> n]
KeyCode(c) == [t |-> "KeyCode", s |-> <<c>>]
RawStr(s) == [t |-> "str", s |-> s]

\* custom_key = None
NoKey == [t |-> "None", s |-> <<>>]
\* An absent coordinate (None) and a present one.
NoCoord == <<>>
SomeCoord(c) == <<c>>

\* Inputs of the input capability: the two mouse buttons and key tokens.
BtnLeft == [t |-> "Button", s |-> <<"left">>]
BtnRight == [t |-> "Button", s |-> <<"right">>]

KeyF1 == KeyMember(<<"f", "1">>)
KeyF2 == KeyMember(<<"f", "2">>)
KeyF3 == KeyMember(<<"f", "3">>)

\* str(key) of a token.
StrOfKey(key) ==
    IF key.t = "KeyCode" THEN <<"'">> \o key.s \o <<"'">>
    ELSE IF key.t = "Key" THEN <<"K", "e", "y", ".">> \o key.s
    ELSE IF key.t = "attr" THEN <<"<">> \o key.s \o <<">">>
    ELSE key.s

\* _normalize_key
NormalizeKey(key) ==
    IF key.t = "str" THEN LowerStr(key.s)
    ELSE IF key.t = "Key" THEN LStripUnderscore(LowerStr(key.s))
    ELSE LowerStr(StrOfKey(key))

\* A JSON null in the place of a key name; the elements of a str are
\* single characters, so it equals no str.
JsonNull == <<"null">>

\* getattr(Key, n): a member, another attribute of the class, or
\* AttributeError (Absent).
Absent == [t |-> "absent", s |-> <<>>]
GetAttrKey(n) ==
    IF n \in KeyEnumNames THEN KeyMember(n)
    ELSE IF n \in KeyClassAttrs THEN ClassAttr(n)
    ELSE Absent

\* _string_to_key: None has no lower(), the outer except returns Key.f1; on
\* a str the exact name, then the "_"-prefixed name, then a single
\* character returned as a raw str, else the default Key.f1.
StringToKey(str) ==
    IF str = JsonNull THEN KeyF1
    ELSE LET clean == StripStr(LowerStr(str)) IN
         IF GetAttrKey(clean) # Absent THEN GetAttrKey(clean)
         ELSE IF GetAttrKey(<<"_">> \o clean) # Absent THEN GetAttrKey(<<"_">> \o clean)
         ELSE IF Len(clean) = 1 THEN RawStr(clean)
         ELSE KeyF1

\* _key_to_string: key.name lower-cased without one leading underscore;
\* "f1" for an object that has no name.
KeyToString(key) ==
    IF key.t = "Key"
    THEN LET n == LowerStr(key.s) IN IF n # <<>> /\ Head(n) = "_" THEN Tail(n) ELSE n
    ELSE <<"f", "1">>

\* Keys the keyboard listener delivers.
PressedKeys == {KeyF1, KeyF2, KeyF3, KeyCode("a")}
\* Keys the user may choose as the custom key.
CustomKeys == {KeyCode("a")}

(***************************************************************************)
(* Config store (ConfigManager): the dictionary written to the JSON file   *)
(* on every set().                                                         *)
(***************************************************************************)
default_config ==
    [ button_type      |-> "esquerdo",
      saved_x          |-> NoCoord,
      saved_y          |-> NoCoord,
      key_start        |-> <<"f", "1">>,
      key_pause        |-> <<"f", "2">>,
      key_exit         |-> <<"f", "3">>,
      click_delay_ms   |-> DefaultClickDelayMs,
      action_type      |-> "click",
      hold_duration_ms |-> DefaultHoldDurationMs,
      custom_key_name  |-> <<"N", "e", "n", "h", "u", "m", "a">> ]

\* Configurations load_config returns at startup: the defaults overridden by
\* what the file holds.  A file without a coordinate, or with saved_x alone,
\* and files with a coordinate and each selection of action and input kind.
WithCoordinate == [default_config EXCEPT !.saved_x = SomeCoord(134), !.saved_y = SomeCoord(902)]

StoredConfigs ==
    { default_config, [default_config EXCEPT !.saved_x = SomeCoord(134)] }
    \cup { [WithCoordinate EXCEPT !.action_type = a, !.button_type = b] :
             a \in {"click", "hold"}, b \in {"esquerdo", "direito", "custom"} }

LoopIds == 1..MaxLoops

VARIABLES
    \* engine fields of MacroAutomationPyQt
    is_running, is_paused, capture_mode, saved_x, saved_y,
    action_type, button_type, click_delay_ms, hold_duration_ms,
    custom_key, key_start, key_pause, key_exit,
    config,
    \* widget state read by the engine
    checkedId, actionId, delay_spinbox, hold_spinbox, capture_enabled, msgbox, status,
    \* listeners, window and shutdown timer
    listener_alive, mouse_listener_alive, window, closeTimer,
    \* position of the keyboard listener callback, the mouse listener
    \* callback and the GUI thread
    dpc, mpc, my, gpc, keyCap,
    \* Execution Loop threads: position and locals
    lpc, lx, linp, lact, lhold, lpace,
    \* input capability: inputs held down, pointer position
    held, pointer,
    \* history: the inputs whose release the latest _release_all attempted;
    \* whether the dispatcher callback now running, and closeEvent, have
    \* called _release_all; per loop, the actions performed since a stop was
    \* dispatched (-1: no stop) and the milliseconds slept since its latest
    \* press
    relAttempt, dRel, gRel, lpost, lel

vars ==
    << is_running, is_paused, capture_mode, saved_x, saved_y,
       action_type, button_type, click_delay_ms, hold_duration_ms,
       custom_key, key_start, key_pause, key_exit, config,
       checkedId, actionId, delay_spinbox, hold_spinbox, capture_enabled, msgbox, status,
       listener_alive, mouse_listener_alive, window, closeTimer,
       dpc, mpc, my, gpc, keyCap,
       lpc, lx, linp, lact, lhold, lpace,
       held, pointer, relAttempt, dRel, gRel, lpost, lel >>

engineVars ==
    << is_running, is_paused, capture_mode, saved_x, saved_y,
       action_type, button_type, click_delay_ms, hold_duration_ms,
       custom_key, key_start, key_pause, key_exit, config >>
widgetVars == << checkedId, actionId, delay_spinbox, hold_spinbox, capture_enabled, msgbox, status >>
lifeVars == << listener_alive, mouse_listener_alive, window, closeTimer >>
threadVars == << dpc, mpc, my, gpc, keyCap, dRel, gRel >>
loopVars == << lpc, lx, linp, lact, lhold, lpace, lpost, lel >>
ioVars == << held, pointer, relAttempt >>

Status(msg, sev) == [msg |-> msg, sev |-> sev]
NoPace == [act |-> "none", hold |-> 0, delay |-> 0, ms |-> 0]

(***************************************************************************)
(* MacroAutomationPyQt.__init__                                            *)
(***************************************************************************)
ButtonMap(bt) ==
    CASE bt = "esquerdo" -> 0
      [] bt = "direito" -> 1
      [] bt = "custom" -> 2

\* QSpinBox.setValue clamps to the widget's range.
Clamp(v, lo, hi) == IF v < lo THEN lo ELSE IF v > hi THEN hi ELSE v

Init ==
    /\ config \in StoredConfigs
    /\ is_running = FALSE
    /\ is_paused = FALSE
    /\ capture_mode = FALSE
    /\ saved_x = config.saved_x
    /\ saved_y = config.saved_y
    /\ action_type = config.action_type
    /\ button_type = config.button_type
    /\ click_delay_ms = config.click_delay_ms
    /\ hold_duration_ms = config.hold_duration_ms
    \* config_mgr.get("custom_key", None): the store holds no such entry
    /\ custom_key = NoKey
    /\ key_start = StringToKey(config.key_start)
    /\ key_pause = StringToKey(config.key_pause)
    /\ key_exit = StringToKey(config.key_exit)
    /\ checkedId = ButtonMap(button_type)
    /\ actionId = IF action_type = "click" THEN 0 ELSE 1
    /\ delay_spinbox = Clamp(click_delay_ms, DelaySpinMin, DelaySpinMax)
    /\ hold_spinbox = Clamp(hold_duration_ms, HoldSpinMin, HoldSpinMax)
    /\ capture_enabled = TRUE
    /\ msgbox = "none"
    /\ status = Status("Pronto", "info")
    /\ listener_alive = TRUE
    /\ mouse_listener_alive = TRUE
    /\ window = "open"
    /\ closeTimer = FALSE
    /\ dpc = "idle"
    /\ mpc = "idle"
    /\ my = NoCoord
    /\ gpc = "idle"
    /\ keyCap = "off"
    /\ dRel = FALSE
    /\ gRel = FALSE
    /\ lpc = [t \in LoopIds |-> "none"]
    /\ lx = [t \in LoopIds |-> NoCoord]
    /\ linp = [t \in LoopIds |-> NoKey]
    /\ lact = [t \in LoopIds |-> "none"]
    /\ lhold = [t \in LoopIds |-> 0]
    /\ lpace = [t \in LoopIds |-> NoPace]
    /\ lpost = [t \in LoopIds |-> -1]
    /\ lel = [t \in LoopIds |-> 0]
    /\ held = {}
    /\ pointer = <<>>
    /\ relAttempt = {}

\* What the configuration file holds: a JSON object is a record of its
\* keys; a file that is absent, cannot be parsed, or whose top-level value
\* is no object is a record with the one field not_object.
NotObject(why) == [not_object |-> why]
IsObject(f) == "not_object" \notin DOMAIN f

\* The merge keeping the documented keys only
MergeDicts_DocumentedOnly(d, f) ==
    [k \in DOMAIN d |-> IF k \in DOMAIN f THEN f[k] ELSE d[k]]

\* {**self.default_config, **config}
MergeDicts(d, f) ==
    [k \in DOMAIN d \cup DOMAIN f |-> IF k \in DOMAIN f THEN f[k] ELSE d[k]]

\* load_config merging whatever the file holds
LoadConfig_NoFallback(f) == MergeDicts(default_config, f)

\* load_config: an absent file gives a copy of the defaults; json.load or
\* the merge raising (no JSON, no mapping) is caught and gives the same.
LoadConfig(f) ==
    IF IsObject(f) THEN MergeDicts(default_config, f) ELSE default_config

\* The program is started while it is not running: load_config of what the
\* store holds, then __init__ as in Init.  The threads of an earlier run
\* are gone with its process; what that run left held, and the pointer,
\* stay as they are.
Startup ==
    /\ window = "closed"
    /\ config' = LoadConfig(config)
    /\ is_running' = FALSE
    /\ is_paused' = FALSE
    /\ capture_mode' = FALSE
    /\ saved_x' = config'.saved_x
    /\ saved_y' = config'.saved_y
    /\ action_type' = config'.action_type
    /\ button_type' = config'.button_type
    /\ click_delay_ms' = config'.click_delay_ms
    /\ hold_duration_ms' = config'.hold_duration_ms
    /\ custom_key' = NoKey
    /\ key_start' = StringToKey(config'.key_start)
    /\ key_pause' = StringToKey(config'.key_pause)
    /\ key_exit' = StringToKey(config'.key_exit)
    /\ checkedId' = ButtonMap(config'.button_type)
    /\ actionId' = IF config'.action_type = "click" THEN 0 ELSE 1
    /\ delay_spinbox' = Clamp(config'.click_delay_ms, DelaySpinMin, DelaySpinMax)
    /\ hold_spinbox' = Clamp(config'.hold_duration_ms, HoldSpinMin, HoldSpinMax)
    /\ capture_enabled' = TRUE
    /\ msgbox' = "none"
    /\ status' = Status("Pronto", "info")
    /\ listener_alive' = TRUE
    /\ mouse_listener_alive' = TRUE
    /\ window' = "open"
    /\ closeTimer' = FALSE
    /\ dpc' = "idle"
    /\ mpc' = "idle"
    /\ my' = NoCoord
    /\ gpc' = "idle"
    /\ keyCap' = "off"
    /\ dRel' = FALSE
    /\ gRel' = FALSE
    /\ lpc' = [t \in LoopIds |-> "none"]
    /\ lx' = [t \in LoopIds |-> NoCoord]
    /\ linp' = [t \in LoopIds |-> NoKey]
    /\ lact' = [t \in LoopIds |-> "none"]
    /\ lhold' = [t \in LoopIds |-> 0]
    /\ lpace' = [t \in LoopIds |-> NoPace]
    /\ lpost' = [t \in LoopIds |-> -1]
    /\ lel' = [t \in LoopIds |-> 0]
    /\ relAttempt' = {}
    /\ UNCHANGED << held, pointer >>

(***************************************************************************)
(* _release_all: release of the left button, of the right button and of    *)
(* the custom key when one is set, each in its own try/except.  A release  *)
(* of an input that is not held may raise (failing); the remaining         *)
(* releases are attempted all the same.                                    *)
(***************************************************************************)
ReleaseTargets(ck) == {BtnLeft, BtnRight} \cup (IF ck # NoKey THEN {ck} ELSE {})

ReleaseAttempts_Abort(ck, failing) ==
    IF BtnLeft \in failing THEN {BtnLeft}
    ELSE IF BtnRight \in failing THEN {BtnLeft, BtnRight}
    ELSE ReleaseTargets(ck)

ReleaseAttempts(ck, failing) == ReleaseTargets(ck)

ReleaseAll ==
    \E failing \in SUBSET (ReleaseTargets(custom_key) \ held) :
        /\ relAttempt' = ReleaseAttempts(custom_key, failing)
        /\ held' = held \ relAttempt'

(***************************************************************************)
(* _on_key_press: the hotkey dispatcher, on the keyboard listener thread.  *)
(***************************************************************************)
Active(t) == lpc[t] # "none"
ActiveLoops == {t \in LoopIds : Active(t)}
FreeSlots == LoopIds \ ActiveLoops

CoordinateMissing_And == saved_x = NoCoord /\ saved_y = NoCoord

CoordinateMissing == saved_x = NoCoord \/ saved_y = NoCoord

\* The if/elif chain ending in a branch that takes every other key
DispatchBranch_ElseExit(k) ==
    LET key_pressed == NormalizeKey(k) IN
    IF key_pressed = NormalizeKey(key_start) THEN "start"
    ELSE IF key_pressed = NormalizeKey(key_pause) THEN "pause"
    ELSE "exit"

\* The chain testing the slots in the order Exit, Pause, Start
DispatchBranch_ExitFirst(k) ==
    LET key_pressed == NormalizeKey(k) IN
    IF key_pressed = NormalizeKey(key_exit) THEN "exit"
    ELSE IF key_pressed = NormalizeKey(key_pause) THEN "pause"
    ELSE IF key_pressed = NormalizeKey(key_start) THEN "start"
    ELSE "none"

DispatchBranch(k) ==
    LET key_pressed == NormalizeKey(k) IN
    IF key_pressed = NormalizeKey(key_start) THEN "start"
    ELSE IF key_pressed = NormalizeKey(key_pause) THEN "pause"
    ELSE IF key_pressed = NormalizeKey(key_exit) THEN "exit"
    ELSE "none"

\* A stop (is_running = False) is dispatched: every loop active now starts
\* counting the presses it still makes.
MarkStopped == [t \in LoopIds |-> IF Active(t) THEN 0 ELSE lpost[t]]

\* A key press delivered by the listener: the normalisation, the branch and
\* the first statement of the branch taken.  Start with no coordinate shows
\* the warning box and returns when it is dismissed.
KeyPress(k) ==
    /\ dpc = "idle"
    /\ listener_alive
    /\ LET b == DispatchBranch(k) IN
       /\ b = "start" /\ ~CoordinateMissing => FreeSlots # {}
       /\ dpc' = CASE b = "start" /\ CoordinateMissing -> "start_warn"
                   [] b = "start" /\ ~CoordinateMissing -> "start_set_paused"
                   [] b = "pause" -> "pause_set_paused"
                   [] b = "exit" -> "exit_set_paused"
                   [] OTHER -> "idle"
       /\ msgbox' = IF b = "start" /\ CoordinateMissing THEN "coord_warning" ELSE msgbox
       /\ is_running' = CASE b = "start" /\ ~CoordinateMissing -> TRUE
                          [] b \in {"pause", "exit"} -> FALSE
                          [] OTHER -> is_running
       /\ lpost' = IF b \in {"pause", "exit"} THEN MarkStopped ELSE lpost
    /\ UNCHANGED << is_paused, capture_mode, saved_x, saved_y, action_type, button_type,
                    click_delay_ms, hold_duration_ms, custom_key, key_start, key_pause,
                    key_exit, config, checkedId, actionId, delay_spinbox, hold_spinbox,
                    capture_enabled, status, lifeVars, mpc, my, gpc, keyCap, dRel, gRel,
                    lpc, lx, linp, lact, lhold, lpace, lel, ioVars >>

\* The user dismisses the warning box; the callback returns.
StartWarnReturn ==
    /\ dpc = "start_warn"
    /\ dpc' = "idle"
    /\ msgbox' = "none"
    /\ UNCHANGED << engineVars, checkedId, actionId, delay_spinbox, hold_spinbox, capture_enabled,
                    status, lifeVars, mpc, my, gpc, keyCap, dRel, gRel, loopVars, ioVars >>

StartPausedValue_Kept == is_paused

StartPausedValue == FALSE

StartSetPaused ==
    /\ dpc = "start_set_paused"
    /\ is_paused' = StartPausedValue
    /\ dpc' = "start_spawn"
    /\ UNCHANGED << is_running, capture_mode, saved_x, saved_y, action_type, button_type,
                    click_delay_ms, hold_duration_ms, custom_key, key_start, key_pause,
                    key_exit, config, widgetVars, lifeVars, mpc, my, gpc, keyCap, dRel, gRel,
                    loopVars, ioVars >>

\* status_changed.emit("Executando...") and
\* threading.Thread(target=self._execute_macro, daemon=True).start()
StartSpawn ==
    /\ dpc = "start_spawn"
    /\ FreeSlots # {}
    /\ status' = Status("Executando...", "success")
    /\ LET t == CHOOSE f \in FreeSlots : \A g \in FreeSlots : f <= g IN
       lpc' = [lpc EXCEPT ![t] = "init"]
    /\ dpc' = "idle"
    /\ UNCHANGED << engineVars, checkedId, actionId, delay_spinbox, hold_spinbox,
                    capture_enabled, msgbox, lifeVars, mpc, my, gpc, keyCap, dRel, gRel,
                    lx, linp, lact, lhold, lpace, lpost, lel, ioVars >>

PauseSetPaused ==
    /\ dpc = "pause_set_paused"
    /\ is_paused' = TRUE
    /\ dpc' = "pause_release"
    /\ UNCHANGED << is_running, capture_mode, saved_x, saved_y, action_type, button_type,
                    click_delay_ms, hold_duration_ms, custom_key, key_start, key_pause,
                    key_exit, config, widgetVars, lifeVars, mpc, my, gpc, keyCap, dRel, gRel,
                    loopVars, ioVars >>

\* self._release_all() and status_changed.emit("Pausado")
PauseRelease ==
    /\ dpc = "pause_release"
    /\ ReleaseAll
    /\ status' = Status("Pausado", "warning")
    /\ dpc' = "idle"
    /\ UNCHANGED << engineVars, checkedId, actionId, delay_spinbox, hold_spinbox,
                    capture_enabled, msgbox, lifeVars, mpc, my, gpc, keyCap, dRel, gRel,
                    loopVars, pointer >>

\* The Exit branch after its two flag assignments, in program order:
\* _release_all() with config_mgr.save_config(), then
\* QTimer.singleShot(500, self.close).
ExitOrder_TimerFirst == << "exit_timer", "exit_release" >>

ExitOrder == << "exit_release", "exit_timer" >>

\* The Exit branch returning after its release-all, no timer set
ExitNext_NoTimer(pc) ==
    IF pc = "exit_set_paused" THEN "exit_release" ELSE "idle"

ExitNext(pc) ==
    IF pc = "exit_set_paused" THEN ExitOrder[1]
    ELSE IF pc = ExitOrder[1] THEN ExitOrder[2]
    ELSE "idle"

ExitSetPaused ==
    /\ dpc = "exit_set_paused"
    /\ is_paused' = FALSE
    /\ dpc' = ExitNext(dpc)
    /\ UNCHANGED << is_running, capture_mode, saved_x, saved_y, action_type, button_type,
                    click_delay_ms, hold_duration_ms, custom_key, key_start, key_pause,
                    key_exit, config, widgetVars, lifeVars, mpc, my, gpc, keyCap, dRel, gRel,
                    loopVars, ioVars >>

\* save_config rewrites the file from the dictionary: the store is unchanged.
ExitRelease ==
    /\ dpc = "exit_release"
    /\ ReleaseAll
    /\ dpc' = ExitNext(dpc)
    /\ dRel' = (dpc' # "idle")
    /\ UNCHANGED << engineVars, widgetVars, lifeVars, mpc, my, gpc, keyCap, gRel, loopVars, pointer >>

ExitTimer ==
    /\ dpc = "exit_timer"
    /\ closeTimer' = TRUE
    /\ dpc' = ExitNext(dpc)
    /\ dRel' = (dpc' # "idle" /\ dRel)
    /\ UNCHANGED << engineVars, widgetVars, listener_alive, mouse_listener_alive, window,
                    mpc, my, gpc, keyCap, gRel, loopVars, ioVars >>

(***************************************************************************)
(* _execute_macro: the Execution Loop, one thread per accepted Start.      *)
(***************************************************************************)
\* button_map.get(checkedId, "esquerdo")
ButtonOfId(id) ==
    CASE id = 0 -> "esquerdo"
      [] id = 1 -> "direito"
      [] id = 2 -> "custom"
      [] OTHER -> "esquerdo"

\* Sleep between the press and the release of a keyboard click.
KeyClickMs == 50

\* The pacing sleep at the end of an iteration, in milliseconds.
PacingSleepMs(act, hold, delay) == IF act = "click" THEN delay ELSE hold + delay

\* What the loop does on a missing custom key: break, to the final release.
MissingKeyNext_Continue == "check"

MissingKeyNext == "final"

\* The inputs held after release(inp).
HeldAfterRelease_Skip(h, inp) == h

HeldAfterRelease(h, inp) == h \ {inp}

BumpPost(t) == IF lpost[t] < 0 THEN lpost[t] ELSE IF lpost[t] < MaxPostStop THEN lpost[t] + 1 ELSE lpost[t]

\* The thread function returns: the thread is gone.
ThreadEnds(t) ==
    /\ lpc' = [lpc EXCEPT ![t] = "none"]
    /\ lx' = [lx EXCEPT ![t] = NoCoord]
    /\ linp' = [linp EXCEPT ![t] = NoKey]
    /\ lact' = [lact EXCEPT ![t] = "none"]
    /\ lhold' = [lhold EXCEPT ![t] = 0]
    /\ lpace' = [lpace EXCEPT ![t] = NoPace]
    /\ lpost' = [lpost EXCEPT ![t] = -1]
    /\ lel' = [lel EXCEPT ![t] = 0]

LoopInit(t) ==
    /\ lpc[t] = "init"
    /\ button_type' = ButtonOfId(checkedId)
    /\ config' = [config EXCEPT !.button_type = button_type']
    /\ lpc' = [lpc EXCEPT ![t] = "check"]
    /\ UNCHANGED << is_running, is_paused, capture_mode, saved_x, saved_y, action_type,
                    click_delay_ms, hold_duration_ms, custom_key, key_start, key_pause,
                    key_exit, widgetVars, lifeVars, threadVars,
                    lx, linp, lact, lhold, lpace, lpost, lel, ioVars >>

\* A loop condition that never ends the loop
WhileCondition_Forever(running) == TRUE

\* while self.is_running
WhileCondition(running) == running

\* while self.is_running, and for a mouse kind the first read of the tuple
\* (self.saved_x, self.saved_y)
LoopCheck(t) ==
    /\ lpc[t] = "check"
    /\ IF ~WhileCondition(is_running)
       THEN /\ lpc' = [lpc EXCEPT ![t] = "final"]
            /\ lx' = lx
       ELSE IF button_type \in {"esquerdo", "direito"}
       THEN /\ lx' = [lx EXCEPT ![t] = saved_x]
            /\ lpc' = [lpc EXCEPT ![t] = "move_y"]
       ELSE /\ lpc' = [lpc EXCEPT ![t] = "sel"]
            /\ lx' = lx
    /\ UNCHANGED << engineVars, widgetVars, lifeVars, threadVars,
                    linp, lact, lhold, lpace, lpost, lel, ioVars >>

\* The second read and mouse_controller.position = (x, y), then the settle
\* sleep.  The assignment may raise: the outer except emits the error
\* status and the thread ends.
LoopMoveY(t) ==
    /\ lpc[t] = "move_y"
    /\ \E fails \in BOOLEAN :
        IF fails
        THEN /\ status' = Status("Erro: excecao", "error")
             /\ ThreadEnds(t)
             /\ pointer' = pointer
        ELSE /\ pointer' = << lx[t], saved_y >>
             /\ lpc' = [lpc EXCEPT ![t] = "sel"]
             /\ lx' = [lx EXCEPT ![t] = NoCoord]
             /\ UNCHANGED << status, linp, lact, lhold, lpace, lpost, lel >>
    /\ UNCHANGED << engineVars, checkedId, actionId, delay_spinbox, hold_spinbox,
                    capture_enabled, msgbox, lifeVars, threadVars, held, relAttempt >>

\* The input the iteration acts on, NoKey when the kind is custom and no
\* custom key is set.
SelectedInput ==
    CASE button_type = "esquerdo" -> BtnLeft
      [] button_type = "direito" -> BtnRight
      [] OTHER -> custom_key

\* The pacing sleep that ends an iteration: its argument is read from
\* action_type and the timing fields when the sleep starts.
PaceRecord ==
    LET act == action_type
        hold == IF act = "click" THEN 0 ELSE hold_duration_ms
    IN  [act |-> act, hold |-> hold, delay |-> click_delay_ms,
         ms |-> PacingSleepMs(act, hold, click_delay_ms)]

\* _perform_action / _perform_keyboard_action up to the sleep after the
\* press.  A press that raises is caught there: the iteration goes on to
\* its pacing sleep.  A mouse click is press and release at once, followed
\* by the pacing sleep.
LoopPerform(t) ==
    /\ lpc[t] = "sel"
    /\ SelectedInput # NoKey
    /\ \E fails \in BOOLEAN :
        LET inp == SelectedInput
            act == action_type
            mouse == inp \in {BtnLeft, BtnRight}
        IN  /\ lact' = [lact EXCEPT ![t] = act]
            /\ lpost' = [lpost EXCEPT ![t] = IF fails THEN lpost[t] ELSE BumpPost(t)]
            /\ IF fails \/ (mouse /\ act = "click")
               THEN /\ held' = IF fails THEN held ELSE HeldAfterRelease(held \cup {inp}, inp)
                    /\ linp' = [linp EXCEPT ![t] = NoKey]
                    /\ lhold' = [lhold EXCEPT ![t] = 0]
                    /\ lpace' = [lpace EXCEPT ![t] = PaceRecord]
                    /\ lel' = [lel EXCEPT ![t] = PaceRecord.ms]
                    /\ lpc' = [lpc EXCEPT ![t] = "check"]
               ELSE /\ held' = held \cup {inp}
                    /\ linp' = [linp EXCEPT ![t] = inp]
                    /\ lhold' = [lhold EXCEPT ![t] =
                                   IF act = "click" THEN KeyClickMs ELSE hold_duration_ms]
                    /\ lpace' = [lpace EXCEPT ![t] = NoPace]
                    /\ lel' = [lel EXCEPT ![t] = 0]
                    /\ lpc' = [lpc EXCEPT ![t] = "release"]
    /\ UNCHANGED << engineVars, widgetVars, lifeVars, threadVars, lx, pointer, relAttempt >>

\* Custom kind with no custom key: error status and break.
LoopMissingKey(t) ==
    /\ lpc[t] = "sel"
    /\ SelectedInput = NoKey
    /\ status' = Status("Erro: Nenhuma tecla customizada selecionada", "error")
    /\ lpc' = [lpc EXCEPT ![t] = MissingKeyNext]
    /\ UNCHANGED << engineVars, checkedId, actionId, delay_spinbox, hold_spinbox,
                    capture_enabled, msgbox, lifeVars, threadVars,
                    lx, linp, lact, lhold, lpace, lpost, lel, ioVars >>

\* The sleep after the press is over: release of the input pressed, then
\* the pacing sleep.
LoopRelease(t) ==
    /\ lpc[t] = "release"
    /\ held' = HeldAfterRelease(held, linp[t])
    /\ lpace' = [lpace EXCEPT ![t] = PaceRecord]
    /\ lel' = [lel EXCEPT ![t] = lel[t] + lhold[t] + PaceRecord.ms]
    /\ linp' = [linp EXCEPT ![t] = NoKey]
    /\ lhold' = [lhold EXCEPT ![t] = 0]
    /\ lpc' = [lpc EXCEPT ![t] = "check"]
    /\ UNCHANGED << engineVars, widgetVars, lifeVars, threadVars,
                    lx, lact, lpost, pointer, relAttempt >>

\* After the while: self._release_all()
LoopFinalRelease(t) ==
    /\ lpc[t] = "final"
    /\ ReleaseAll
    /\ lpc' = [lpc EXCEPT ![t] = "final_emit"]
    /\ UNCHANGED << engineVars, widgetVars, lifeVars, threadVars,
                    lx, linp, lact, lhold, lpace, lpost, lel, pointer >>

LoopFinalEmit(t) ==
    /\ lpc[t] = "final_emit"
    /\ status' = Status("Parado", "error")
    /\ ThreadEnds(t)
    /\ UNCHANGED << engineVars, checkedId, actionId, delay_spinbox, hold_spinbox,
                    capture_enabled, msgbox, lifeVars, threadVars, ioVars >>

(***************************************************************************)
(* _on_mouse_click, on the mouse listener thread.                          *)
(***************************************************************************)
\* Points at which the user clicks, and the buttons clicked with.
Points == { <<134, 902>>, <<7, 9>> }
Buttons == { BtnLeft, BtnRight }

\* The test taking any press, armed or not
CaptureTakes_Unarmed(mode, pressed) == pressed

\* if self.capture_mode and pressed
CaptureTakes(mode, pressed) == mode /\ pressed

\* The callback up to its first assignment; button is not read.
MouseClick(x, y, button, pressed) ==
    /\ mpc = "idle"
    /\ mouse_listener_alive
    /\ IF CaptureTakes(capture_mode, pressed)
       THEN /\ saved_x' = SomeCoord(x)
            /\ my' = SomeCoord(y)
            /\ mpc' = "set_y"
       ELSE UNCHANGED << saved_x, my, mpc >>
    /\ UNCHANGED << is_running, is_paused, capture_mode, saved_y, action_type, button_type,
                    click_delay_ms, hold_duration_ms, custom_key, key_start, key_pause,
                    key_exit, config, widgetVars, lifeVars, dpc, gpc, keyCap, dRel, gRel,
                    loopVars, ioVars >>

MouseSetY ==
    /\ mpc = "set_y"
    /\ saved_y' = my
    /\ mpc' = "disarm"
    /\ UNCHANGED << is_running, is_paused, capture_mode, saved_x, action_type, button_type,
                    click_delay_ms, hold_duration_ms, custom_key, key_start, key_pause,
                    key_exit, config, widgetVars, lifeVars, dpc, my, gpc, keyCap, dRel, gRel,
                    loopVars, ioVars >>

MouseDisarm ==
    /\ mpc = "disarm"
    /\ capture_mode' = FALSE
    /\ mpc' = "persist"
    /\ UNCHANGED << is_running, is_paused, saved_x, saved_y, action_type, button_type,
                    click_delay_ms, hold_duration_ms, custom_key, key_start, key_pause,
                    key_exit, config, widgetVars, lifeVars, dpc, my, gpc, keyCap, dRel, gRel,
                    loopVars, ioVars >>

\* config_mgr.set("saved_x", x) without the second set
PersistCoordinate_XOnly(cfg, x, y) == [cfg EXCEPT !.saved_x = x]

\* config_mgr.set("saved_x", x); config_mgr.set("saved_y", y)
PersistCoordinate(cfg, x, y) == [cfg EXCEPT !.saved_x = x, !.saved_y = y]

\* config_mgr.set for both coordinates, the capture button re-enabled, the
\* "captured" status.
MousePersist ==
    /\ mpc = "persist"
    /\ config' = PersistCoordinate(config, saved_x, saved_y)
    /\ capture_enabled' = TRUE
    /\ status' = Status("Coordenada capturada!", "success")
    /\ mpc' = "idle"
    /\ my' = NoCoord
    /\ UNCHANGED << is_running, is_paused, capture_mode, saved_x, saved_y, action_type,
                    button_type, click_delay_ms, hold_duration_ms, custom_key, key_start,
                    key_pause, key_exit, checkedId, actionId, delay_spinbox, hold_spinbox,
                    msgbox, lifeVars, dpc, gpc, keyCap, dRel, gRel, loopVars, ioVars >>

(***************************************************************************)
(* Widget callbacks and closeEvent, on the GUI thread.                     *)
(***************************************************************************)
GuiIdle == gpc = "idle" /\ window = "open"

\* _start_capture_mode
StartCaptureMode ==
    /\ GuiIdle
    /\ capture_enabled
    /\ capture_mode' = TRUE
    /\ capture_enabled' = FALSE
    /\ status' = Status("Aguardando clique na tela...", "warning")
    /\ UNCHANGED << is_running, is_paused, saved_x, saved_y, action_type, button_type,
                    click_delay_ms, hold_duration_ms, custom_key, key_start, key_pause,
                    key_exit, config, checkedId, actionId, delay_spinbox, hold_spinbox,
                    msgbox, lifeVars, threadVars, loopVars, ioVars >>

\* _on_action_changed, after a click on one of the two action radio buttons
ActionChanged(id) ==
    /\ GuiIdle
    /\ actionId' = id
    /\ action_type' = IF id = 0 THEN "click" ELSE "hold"
    /\ config' = [config EXCEPT !.action_type = action_type']
    /\ UNCHANGED << is_running, is_paused, capture_mode, saved_x, saved_y, button_type,
                    click_delay_ms, hold_duration_ms, custom_key, key_start, key_pause,
                    key_exit, checkedId, delay_spinbox, hold_spinbox, capture_enabled,
                    msgbox, status, lifeVars, threadVars, loopVars, ioVars >>

\* A click on one of the three button radio buttons: no callback is
\* connected, the loop reads checkedId() when it starts.
ButtonSelected(id) ==
    /\ GuiIdle
    /\ checkedId' = id
    /\ UNCHANGED << engineVars, actionId, delay_spinbox, hold_spinbox, capture_enabled,
                    msgbox, status, lifeVars, threadVars, loopVars, ioVars >>

\* _on_timing_changed, after the user changes one of the two spin boxes
TimingChanged(d, h) ==
    /\ GuiIdle
    /\ (d = delay_spinbox) # (h = hold_spinbox)
    /\ delay_spinbox' = d
    /\ hold_spinbox' = h
    /\ click_delay_ms' = d
    /\ hold_duration_ms' = h
    /\ config' = [config EXCEPT !.click_delay_ms = d, !.hold_duration_ms = h]
    /\ UNCHANGED << is_running, is_paused, capture_mode, saved_x, saved_y, action_type,
                    button_type, custom_key, key_start, key_pause, key_exit,
                    checkedId, actionId, capture_enabled, msgbox, status,
                    lifeVars, threadVars, loopVars, ioVars >>

\* _open_key_selector_dialog: the modal dialog and its capture listener
OpenKeySelector ==
    /\ GuiIdle
    /\ gpc' = "key_selector"
    /\ keyCap' = "armed"
    /\ UNCHANGED << engineVars, widgetVars, lifeVars, dpc, mpc, my, dRel, gRel,
                    loopVars, ioVars >>

KeyName(key) == IF key.t = "Key" THEN LStripUnderscore(key.s) ELSE key.s

UpperChar(c) ==
    CASE c = "a" -> "A"
      [] c = "f" -> "F"
      [] OTHER -> c

RECURSIVE UpperStr(_)
UpperStr(s) == IF s = <<>> THEN <<>> ELSE <<UpperChar(Head(s))>> \o UpperStr(Tail(s))

\* on_press of the key selector's listener: returns False, the listener stops
CustomKeyPress(k) ==
    /\ keyCap = "armed"
    /\ custom_key' = k
    /\ config' = [config EXCEPT !.custom_key_name = UpperStr(KeyName(k))]
    /\ keyCap' = "done"
    /\ UNCHANGED << is_running, is_paused, capture_mode, saved_x, saved_y, action_type,
                    button_type, click_delay_ms, hold_duration_ms, key_start, key_pause,
                    key_exit, widgetVars, lifeVars, dpc, mpc, my, gpc, dRel, gRel,
                    loopVars, ioVars >>

\* The dialog closes (accepted one second after the capture, or closed by
\* the user); listener_obj.stop()
CloseKeySelector ==
    /\ gpc = "key_selector"
    /\ gpc' = "idle"
    /\ keyCap' = "off"
    /\ UNCHANGED << engineVars, widgetVars, lifeVars, dpc, mpc, my, dRel, gRel,
                    loopVars, ioVars >>

\* _open_keybind_dialog: the global keyboard listener is stopped and the
\* modal dialog with its three "Selecionar" buttons opens.
OpenKeybindDialog ==
    /\ GuiIdle
    /\ listener_alive' = FALSE
    /\ gpc' = "keybind"
    /\ UNCHANGED << engineVars, widgetVars, mouse_listener_alive, window, closeTimer,
                    dpc, mpc, my, keyCap, dRel, gRel, loopVars, ioVars >>

HotkeySlots == {"start", "pause", "exit"}
RebindPc(slot) ==
    CASE slot = "start" -> "rebind_start"
      [] slot = "pause" -> "rebind_pause"
      [] slot = "exit" -> "rebind_exit"

\* _capture_hotkey_rebind(hotkey_type, dialog): the modal sub-dialog opens
\* and its thread starts a listener and joins it with a timeout.
CaptureHotkeyRebind(slot) ==
    /\ gpc = "keybind"
    /\ gpc' = RebindPc(slot)
    /\ keyCap' = "armed"
    /\ UNCHANGED << engineVars, widgetVars, lifeVars, dpc, mpc, my, dRel, gRel,
                    loopVars, ioVars >>

\* listener_obj.join(timeout=15) returns, no key having been pressed: the
\* capture thread ends, the listener it started goes on.
RebindJoinTimeout ==
    /\ gpc \in { RebindPc(slot) : slot \in HotkeySlots }
    /\ keyCap = "armed"
    /\ keyCap' = "timed_out"
    /\ UNCHANGED << engineVars, widgetVars, lifeVars, dpc, mpc, my, gpc, dRel, gRel,
                    loopVars, ioVars >>

\* str(key).replace("'", "")
RECURSIVE RemoveQuotes(_)
RemoveQuotes(s) ==
    IF s = <<>> THEN <<>>
    ELSE IF Head(s) = "'" THEN RemoveQuotes(Tail(s))
    ELSE <<Head(s)>> \o RemoveQuotes(Tail(s))

\* key_name_clean of on_press: key.name without one leading underscore, or
\* str(key) without its quotes for a key that has no name; lower-cased.
HotkeyNameClean(key) ==
    IF key.t = "Key"
    THEN LowerStr(IF key.s # <<>> /\ Head(key.s) = "_" THEN Tail(key.s) ELSE key.s)
    ELSE LowerStr(RemoveQuotes(StrOfKey(key)))

\* on_press of the rebind listener, for the slot of the open sub-dialog: the
\* binding and its persisted name are written, no conflict with the other
\* slots is checked; returns False, the listener stops.
RebindKeyPress(k) ==
    /\ keyCap \in {"armed", "timed_out"}
    /\ \E slot \in HotkeySlots :
         /\ gpc = RebindPc(slot)
         /\ key_start' = IF slot = "start" THEN k ELSE key_start
         /\ key_pause' = IF slot = "pause" THEN k ELSE key_pause
         /\ key_exit' = IF slot = "exit" THEN k ELSE key_exit
         /\ config' = CASE slot = "start" -> [config EXCEPT !.key_start = HotkeyNameClean(k)]
                        [] slot = "pause" -> [config EXCEPT !.key_pause = HotkeyNameClean(k)]
                        [] slot = "exit" -> [config EXCEPT !.key_exit = HotkeyNameClean(k)]
    /\ keyCap' = "done"
    /\ UNCHANGED << is_running, is_paused, capture_mode, saved_x, saved_y, action_type,
                    button_type, click_delay_ms, hold_duration_ms, custom_key,
                    widgetVars, lifeVars, dpc, mpc, my, gpc, dRel, gRel, loopVars, ioVars >>

\* The sub-dialog closes (accepted one second after the capture, or closed
\* by the user); listener_obj.stop()
CloseRebind ==
    /\ gpc \in { RebindPc(slot) : slot \in HotkeySlots }
    /\ gpc' = "keybind"
    /\ keyCap' = "off"
    /\ UNCHANGED << engineVars, widgetVars, lifeVars, dpc, mpc, my, dRel, gRel,
                    loopVars, ioVars >>

\* The keybind dialog closes: the stopped listener is not alive, so
\* _initialize_listeners starts a mouse and a keyboard listener.
CloseKeybindDialog ==
    /\ gpc = "keybind"
    /\ gpc' = "idle"
    /\ listener_alive' = TRUE
    /\ mouse_listener_alive' = TRUE
    /\ UNCHANGED << engineVars, widgetVars, window, closeTimer, dpc, mpc, my, keyCap,
                    dRel, gRel, loopVars, ioVars >>

(***************************************************************************)
(* The keybind dialog of the Tkinter version (MacroV2.0.py): a Toplevel of *)
(* the main loop with a capture button per slot, an OK button, a "Restaurar*)
(* Padrao" button and the window's close button.  The engine fields and    *)
(* _on_key_press are those of the PyQt version.  One capture at a time and *)
(* the dialog closed with no capture pending are modelled.                 *)
(***************************************************************************)
\* _open_keybind_dialog: the global keyboard listener is stopped.
OpenKeybindDialogTk ==
    /\ GuiIdle
    /\ listener_alive' = FALSE
    /\ gpc' = "tk_keybind"
    /\ UNCHANGED << engineVars, widgetVars, mouse_listener_alive, window, closeTimer,
                    dpc, mpc, my, keyCap, dRel, gRel, loopVars, ioVars >>

TkCapturePc(slot) ==
    CASE slot = "start" -> "tk_capture_start"
      [] slot = "pause" -> "tk_capture_pause"
      [] slot = "exit" -> "tk_capture_exit"

\* _capture_key(action, button): the capture thread enters
\* `with Listener(on_press=on_press)` and joins it for five seconds.
CaptureKey(slot) ==
    /\ gpc = "tk_keybind"
    /\ gpc' = TkCapturePc(slot)
    /\ keyCap' = "armed"
    /\ UNCHANGED << engineVars, widgetVars, lifeVars, dpc, mpc, my, dRel, gRel,
                    loopVars, ioVars >>

\* on_press of _capture_key: the binding, then the name _key_to_string
\* gives for it; returns False, the listener stops.
CaptureKeyPress(k) ==
    /\ keyCap = "armed"
    /\ \E slot \in HotkeySlots :
         /\ gpc = TkCapturePc(slot)
         /\ key_start' = IF slot = "start" THEN k ELSE key_start
         /\ key_pause' = IF slot = "pause" THEN k ELSE key_pause
         /\ key_exit' = IF slot = "exit" THEN k ELSE key_exit
         /\ config' = CASE slot = "start" -> [config EXCEPT !.key_start = KeyToString(k)]
                        [] slot = "pause" -> [config EXCEPT !.key_pause = KeyToString(k)]
                        [] slot = "exit" -> [config EXCEPT !.key_exit = KeyToString(k)]
    /\ keyCap' = "off"
    /\ gpc' = "tk_keybind"
    /\ UNCHANGED << is_running, is_paused, capture_mode, saved_x, saved_y, action_type,
                    button_type, click_delay_ms, hold_duration_ms, custom_key,
                    widgetVars, lifeVars, dpc, mpc, my, dRel, gRel, loopVars, ioVars >>

\* listener.join(timeout=5) returns with no key pressed: leaving the with
\* block stops the listener.
CaptureKeyTimeout ==
    /\ gpc \in { TkCapturePc(slot) : slot \in HotkeySlots }
    /\ keyCap = "armed"
    /\ keyCap' = "off"
    /\ gpc' = "tk_keybind"
    /\ UNCHANGED << engineVars, widgetVars, lifeVars, dpc, mpc, my, dRel, gRel,
                    loopVars, ioVars >>

\* The three exits of the dialog.
DialogExits == {"ok", "restore", "window"}

\* OK destroys the dialog; "Restaurar Padrao" calls _reset_keybinds and
\* destroys it; the window's close button calls on_dialog_close, which
\* starts the listeners again, and destroys it.
CloseKeybindDialogTk(exit) ==
    /\ gpc = "tk_keybind"
    /\ gpc' = "idle"
    /\ IF exit = "window"
       THEN listener_alive' = TRUE /\ mouse_listener_alive' = TRUE
       ELSE UNCHANGED << listener_alive, mouse_listener_alive >>
    /\ IF exit = "restore"
       THEN /\ key_start' = KeyF1
            /\ key_pause' = KeyF2
            /\ key_exit' = KeyF3
            /\ config' = [config EXCEPT !.key_start = <<"f", "1">>,
                                        !.key_pause = <<"f", "2">>,
                                        !.key_exit = <<"f", "3">>]
       ELSE UNCHANGED << key_start, key_pause, key_exit, config >>
    /\ UNCHANGED << is_running, is_paused, capture_mode, saved_x, saved_y, action_type,
                    button_type, click_delay_ms, hold_duration_ms, custom_key,
                    widgetVars, window, closeTimer, dpc, mpc, my, keyCap,
                    dRel, gRel, loopVars, ioVars >>

\* _reset_all, confirmed
ResetAll ==
    /\ GuiIdle
    /\ key_start' = KeyF1
    /\ key_pause' = KeyF2
    /\ key_exit' = KeyF3
    /\ custom_key' = NoKey
    /\ delay_spinbox' = DefaultClickDelayMs
    /\ hold_spinbox' = DefaultHoldDurationMs
    /\ IF delay_spinbox # DefaultClickDelayMs \/ hold_spinbox # DefaultHoldDurationMs
       THEN /\ click_delay_ms' = DefaultClickDelayMs
            /\ hold_duration_ms' = DefaultHoldDurationMs
       ELSE UNCHANGED << click_delay_ms, hold_duration_ms >>
    /\ config' = [config EXCEPT
                    !.key_start = default_config.key_start,
                    !.key_pause = default_config.key_pause,
                    !.key_exit = default_config.key_exit,
                    !.custom_key_name = default_config.custom_key_name,
                    !.click_delay_ms = click_delay_ms',
                    !.hold_duration_ms = hold_duration_ms']
    /\ actionId' = 0
    /\ checkedId' = 0
    /\ UNCHANGED << is_running, is_paused, capture_mode, saved_x, saved_y, action_type,
                    button_type, capture_enabled, msgbox, status,
                    lifeVars, threadVars, loopVars, ioVars >>

\* closeEvent, entered when the user closes the window or when the timer
\* set by the Exit key fires.
CloseBegin(byTimer) ==
    /\ GuiIdle
    /\ byTimer => closeTimer
    /\ closeTimer' = IF byTimer THEN FALSE ELSE closeTimer
    /\ window' = "closing"
    /\ gpc' = "close_release"
    /\ is_running' = FALSE
    /\ gRel' = FALSE
    /\ UNCHANGED << is_paused, capture_mode, saved_x, saved_y, action_type, button_type,
                    click_delay_ms, hold_duration_ms, custom_key, key_start, key_pause,
                    key_exit, config, widgetVars, listener_alive, mouse_listener_alive,
                    dpc, mpc, my, keyCap, dRel, loopVars, ioVars >>

CloseRelease ==
    /\ gpc = "close_release"
    /\ ReleaseAll
    /\ gRel' = TRUE
    /\ gpc' = "close_save"
    /\ UNCHANGED << engineVars, widgetVars, lifeVars, dpc, mpc, my, keyCap, dRel,
                    loopVars, pointer >>

\* config_mgr.set("button_type", "esquerdo")
CloseSave ==
    /\ gpc = "close_save"
    /\ config' = [config EXCEPT !.button_type = "esquerdo"]
    /\ gpc' = "close_stop"
    /\ UNCHANGED << is_running, is_paused, capture_mode, saved_x, saved_y, action_type,
                    button_type, click_delay_ms, hold_duration_ms, custom_key, key_start,
                    key_pause, key_exit, widgetVars, lifeVars, dpc, mpc, my, keyCap,
                    dRel, gRel, loopVars, ioVars >>

\* listener.stop(), mouse_listener.stop(), event.accept()
CloseStop ==
    /\ gpc = "close_stop"
    /\ listener_alive' = FALSE
    /\ mouse_listener_alive' = FALSE
    /\ window' = "closed"
    /\ gpc' = "closed"
    /\ UNCHANGED << engineVars, widgetVars, closeTimer, dpc, mpc, my, keyCap, dRel, gRel,
                    loopVars, ioVars >>

(***************************************************************************)
(* The program.                                                            *)
(***************************************************************************)
Dispatcher ==
    \/ \E k \in PressedKeys : KeyPress(k)
    \/ StartWarnReturn
    \/ StartSetPaused \/ StartSpawn
    \/ PauseSetPaused \/ PauseRelease
    \/ ExitSetPaused \/ ExitRelease \/ ExitTimer

Loop(t) ==
    \/ LoopInit(t) \/ LoopCheck(t) \/ LoopMoveY(t)
    \/ LoopPerform(t) \/ LoopMissingKey(t) \/ LoopRelease(t)
    \/ LoopFinalRelease(t) \/ LoopFinalEmit(t)

Mouse ==
    \/ \E p \in Points, b \in Buttons, pressed \in BOOLEAN : MouseClick(p[1], p[2], b, pressed)
    \/ MouseSetY \/ MouseDisarm \/ MousePersist

KeySelector ==
    \/ OpenKeySelector
    \/ \E k \in CustomKeys : CustomKeyPress(k)
    \/ CloseKeySelector

KeybindDialog ==
    \/ OpenKeybindDialog
    \/ \E slot \in HotkeySlots : CaptureHotkeyRebind(slot)
    \/ RebindJoinTimeout
    \/ \E k \in PressedKeys : RebindKeyPress(k)
    \/ CloseRebind
    \/ CloseKeybindDialog

KeybindDialogTk ==
    \/ OpenKeybindDialogTk
    \/ \E slot \in HotkeySlots : CaptureKey(slot)
    \/ \E k \in PressedKeys : CaptureKeyPress(k)
    \/ CaptureKeyTimeout
    \/ \E exit \in DialogExits : CloseKeybindDialogTk(exit)

Widgets ==
    \/ StartCaptureMode
    \/ \E id \in {0, 1} : ActionChanged(id)
    \/ \E id \in {0, 1, 2} : ButtonSelected(id)
    \/ \E d \in DelayValues, h \in HoldValues : TimingChanged(d, h)

Close ==
    \/ \E byTimer \in BOOLEAN : CloseBegin(byTimer)
    \/ CloseRelease \/ CloseSave \/ CloseStop

\* The hotkey engine: the keyboard listener, the Execution Loops and the
\* custom key selector, from every stored configuration.  The window stays
\* open; the capture of a coordinate and the other widgets are left out.
Next ==
    \/ Dispatcher
    \/ \E t \in LoopIds : Loop(t)
    \/ KeySelector

Spec == Init /\ [][Next]_vars

\* The hotkey engine with the user also resetting the settings at any
\* moment (the callback that unsets the custom key), from the stored
\* configurations without a coordinate and with the custom kind in Hold
\* mode.
ResetConfigs ==
    { default_config,
      [WithCoordinate EXCEPT !.action_type = "hold", !.button_type = "custom"] }

InitReset == Init /\ config \in ResetConfigs

NextReset ==
    \/ Dispatcher
    \/ \E t \in LoopIds : Loop(t)
    \/ KeySelector
    \/ ResetAll

SpecReset == InitReset /\ [][NextReset]_vars

\* The hotkey engine with the shutdown: the Exit timer and the user closing
\* the window, on four of the stored configurations.
CloseConfigs ==
    { default_config, WithCoordinate,
      [WithCoordinate EXCEPT !.action_type = "hold"],
      [WithCoordinate EXCEPT !.button_type = "custom"] }

InitClose == Init /\ config \in CloseConfigs

NextClose ==
    \/ Dispatcher
    \/ \E t \in LoopIds : Loop(t)
    \/ Close

SpecClose == InitClose /\ [][NextClose]_vars

\* Key names a stored file may hold for a hotkey: names of keys in lower
\* and upper case and between blanks, single characters, an unknown name,
\* the empty string, a name of a class attribute, null.
KeyNameInputs ==
    { <<"f", "1">>, <<"F", "2">>, <<" ", "f", "3", " ">>, <<"S", "h", "i", "f", "t">>,
      <<"a">>, <<"A">>, <<" ", "a">>, <<"f", "x">>, <<>>, <<" ">>,
      <<"m", "r", "o">>, JsonNull }

KeyConfigs ==
    { [default_config EXCEPT !.key_start = s, !.key_pause = p] :
        s \in KeyNameInputs, p \in KeyNameInputs }

\* The program not running: no window, no listener, no thread.
ProgramClosed ==
    /\ is_running = FALSE
    /\ is_paused = FALSE
    /\ capture_mode = FALSE
    /\ saved_x = NoCoord
    /\ saved_y = NoCoord
    /\ action_type = "click"
    /\ button_type = "esquerdo"
    /\ click_delay_ms = DefaultClickDelayMs
    /\ hold_duration_ms = DefaultHoldDurationMs
    /\ custom_key = NoKey
    /\ key_start = NoKey
    /\ key_pause = NoKey
    /\ key_exit = NoKey
    /\ checkedId = 0
    /\ actionId = 0
    /\ delay_spinbox = DefaultClickDelayMs
    /\ hold_spinbox = DefaultHoldDurationMs
    /\ capture_enabled = TRUE
    /\ msgbox = "none"
    /\ status = Status("Pronto", "info")
    /\ listener_alive = FALSE
    /\ mouse_listener_alive = FALSE
    /\ window = "closed"
    /\ closeTimer = FALSE
    /\ dpc = "idle"
    /\ mpc = "idle"
    /\ my = NoCoord
    /\ gpc = "closed"
    /\ keyCap = "off"
    /\ dRel = FALSE
    /\ gRel = FALSE
    /\ lpc = [t \in LoopIds |-> "none"]
    /\ lx = [t \in LoopIds |-> NoCoord]
    /\ linp = [t \in LoopIds |-> NoKey]
    /\ lact = [t \in LoopIds |-> "none"]
    /\ lhold = [t \in LoopIds |-> 0]
    /\ lpace = [t \in LoopIds |-> NoPace]
    /\ lpost = [t \in LoopIds |-> -1]
    /\ lel = [t \in LoopIds |-> 0]
    /\ held = {}
    /\ pointer = <<>>
    /\ relAttempt = {}

\* The program not running, the store holding one of KeyConfigs.
InitKeys == config \in KeyConfigs /\ ProgramClosed

\* The start of the program on a stored file, _string_to_key applied to
\* the three stored key names.
NextKeys == Startup

SpecKeys == InitKeys /\ [][NextKeys]_vars

\* Files load_config may find: objects holding any non-empty choice of
\* five documented keys and one unknown key, each documented key with a
\* value other than its default; and files that are absent, not JSON, or
\* JSON with an array, a string, a number or null at the top.
FullFile ==
    [ button_type    |-> "direito",
      action_type    |-> "hold",
      click_delay_ms |-> 250,
      key_start      |-> <<"a">>,
      saved_x        |-> SomeCoord(134),
      extra          |-> <<"x">> ]

LoadFiles ==
    { [k \in K |-> FullFile[k]] : K \in (SUBSET DOMAIN FullFile) \ {{}} }
    \cup { NotObject(why) :
             why \in {"absent", "unparsable", "array", "string", "number", "null"} }

InitLoad == config \in LoadFiles /\ ProgramClosed

\* The start of the program on such a file: load_config, then __init__.
NextLoad == Startup

SpecLoad == InitLoad /\ [][NextLoad]_vars

\* Sessions one after the other on the files of SpecLoad: the program is
\* started, the user chooses a custom key and closes the window, and the
\* program is started again on what the store then holds.
NextRestart ==
    \/ Startup
    \/ KeySelector
    \/ Close

SpecRestart == InitLoad /\ [][NextRestart]_vars

\* SpecClose with the scheduling of the shutdown: the listener thread goes
\* on with the callback it is in, the timer set by the Exit branch fires
\* once the GUI thread is idle, and closeEvent, once entered, goes on to its
\* end.  Nothing obliges the user to press a key or to close the window.
SpecCloseFair ==
    /\ SpecClose
    /\ WF_vars(ExitSetPaused \/ ExitRelease \/ ExitTimer)
    /\ WF_vars(CloseBegin(TRUE))
    /\ WF_vars(CloseRelease \/ CloseSave \/ CloseStop)

\* The keyboard listener and the Execution Loops alone, on the four
\* configurations of SpecClose, with the scheduling of the loop threads: a
\* thread that can take a step eventually takes one (every sleep of the
\* loop ends).  Nothing obliges the user to press a key.
NextLoop ==
    \/ Dispatcher
    \/ \E t \in LoopIds : Loop(t)

SpecLoopFair ==
    /\ InitClose /\ [][NextLoop]_vars
    /\ \A t \in LoopIds : WF_vars(Loop(t))

\* The hotkey engine with the user changing the action on the radio
\* buttons at any moment, from a file without a coordinate and files with
\* one, in Hold mode and with the custom kind.
WidgetConfigs ==
    { default_config,
      [WithCoordinate EXCEPT !.action_type = "hold"],
      [WithCoordinate EXCEPT !.button_type = "custom"] }

InitWidgets == Init /\ config \in WidgetConfigs

NextWidgets ==
    \/ Dispatcher
    \/ \E t \in LoopIds : Loop(t)
    \/ \E id \in {0, 1} : ActionChanged(id)

SpecWidgets == InitWidgets /\ [][NextWidgets]_vars

\* The hotkey engine with the user changing the input kind on the radio
\* buttons at any moment.
NextKind ==
    \/ Dispatcher
    \/ \E t \in LoopIds : Loop(t)
    \/ \E id \in {0, 1, 2} : ButtonSelected(id)

SpecKind == InitWidgets /\ [][NextKind]_vars

\* Stored files: the defaults without a coordinate, and files with a
\* coordinate whose timings are below the spin boxes' minimums, one in
\* Hold mode with both timings 0 and one with the custom kind and a click
\* delay of 0.
TimingConfigs ==
    { default_config,
      [WithCoordinate EXCEPT !.action_type = "hold", !.click_delay_ms = 0,
                             !.hold_duration_ms = 0],
      [WithCoordinate EXCEPT !.button_type = "custom", !.click_delay_ms = 0] }

InitTiming == config \in TimingConfigs /\ ProgramClosed

\* The start of the program on such a file, then the hotkey engine with the
\* user editing the delay spin box.
NextTiming ==
    \/ Startup
    \/ Dispatcher
    \/ \E t \in LoopIds : Loop(t)
    \/ \E d \in DelayValues : TimingChanged(d, hold_spinbox)

SpecTiming == InitTiming /\ [][NextTiming]_vars

\* The Start and Pause keys, the loops and the capture of a coordinate:
\* the user arms the capture and clicks with the left button at (7, 9)
\* while loops may run, from files with the coordinate (134, 902), in Hold
\* mode and with the custom kind.
RecaptureConfigs ==
    { [WithCoordinate EXCEPT !.action_type = "hold"],
      [WithCoordinate EXCEPT !.button_type = "custom"] }

InitRecapture == Init /\ config \in RecaptureConfigs

NextRecapture ==
    \/ \E k \in {KeyF1, KeyF2} : KeyPress(k)
    \/ StartSetPaused \/ StartSpawn
    \/ PauseSetPaused \/ PauseRelease
    \/ \E t \in LoopIds : Loop(t)
    \/ StartCaptureMode
    \/ \E pressed \in BOOLEAN : MouseClick(7, 9, BtnLeft, pressed)
    \/ MouseSetY \/ MouseDisarm \/ MousePersist

SpecRecapture == InitRecapture /\ [][NextRecapture]_vars

\* The bindings: the program started on a file without a coordinate whose
\* Start key is a named key or a character, the keyboard listener, the
\* keybind dialog and the key selector.  With no coordinate no Start is accepted, so the steps
\* of an accepted Start and the loops have nothing to do here.
BindConfigs ==
    { [default_config EXCEPT !.key_start = s, !.key_pause = <<"F", "2">>] :
        s \in { <<"f", "1">>, <<"a">> } }

InitBind == InitKeys /\ config \in BindConfigs

NextBind ==
    \/ Startup
    \/ \E k \in PressedKeys : KeyPress(k)
    \/ StartWarnReturn
    \/ PauseSetPaused \/ PauseRelease
    \/ ExitSetPaused \/ ExitRelease \/ ExitTimer
    \/ KeybindDialog
    \/ KeySelector

SpecBind == InitBind /\ [][NextBind]_vars

\* The Tkinter version's keybind dialog with the keyboard listener, from
\* the default configuration (no coordinate: no Start is accepted).
InitTk == Init /\ config = default_config

NextTk ==
    \/ \E k \in PressedKeys : KeyPress(k)
    \/ StartWarnReturn
    \/ PauseSetPaused \/ PauseRelease
    \/ ExitSetPaused \/ ExitRelease \/ ExitTimer
    \/ KeybindDialogTk

SpecTk == InitTk /\ [][NextTk]_vars

\* The captures: the coordinate capture with the mouse listener, the key
\* selector and the keybind dialog, from every stored configuration; no
\* hotkey is pressed.
NextCapture ==
    \/ StartCaptureMode
    \/ Mouse
    \/ KeySelector
    \/ KeybindDialog

SpecCapture == Init /\ [][NextCapture]_vars

(***************************************************************************)
(* Claims.                                                                 *)
(***************************************************************************)

\* C1: in every reachable state at most one Execution Loop thread is
\* active (a Start dispatched while a loop runs spawns no second loop).
C1_AtMostOneLoop == Cardinality(ActiveLoops) <= 1

\* C2: is_running and is_paused are never both true, the states between
\* the single field assignments of the dispatcher's branches included.
C2_NeverRunningAndPaused == ~(is_running /\ is_paused)

\* C3: a Start key press while saved_x or saved_y is absent takes the
\* warning branch: the warning box is shown, is_running and is_paused keep
\* their values, no loop is spawned by the press, and until the callback
\* returns from the box the dispatcher neither spawns a loop nor writes a
\* flag.
C3_StartWithoutCoordinate ==
    [][ /\ ( /\ dpc = "idle"
             /\ dpc' \in {"start_warn", "start_set_paused"}
             /\ (saved_x = NoCoord \/ saved_y = NoCoord) )
           => /\ dpc' = "start_warn"
              /\ msgbox' = "coord_warning"
              /\ is_running' = is_running
              /\ is_paused' = is_paused
              /\ lpc' = lpc
        /\ dpc = "start_warn"
           => /\ dpc' \in {"start_warn", "idle"}
              /\ is_running' = is_running
              /\ is_paused' = is_paused
              /\ \A t \in LoopIds : lpc[t] = "none" => lpc'[t] = "none"
      ]_vars

\* C3 witness: the warning box is up after a Start pressed with saved_x set
\* and saved_y absent, no loop running.
C3_Witness ==
    /\ dpc = "start_warn"
    /\ msgbox = "coord_warning"
    /\ saved_x # NoCoord
    /\ saved_y = NoCoord
    /\ ~is_running
    /\ ActiveLoops = {}

\* C4: the last step of the Start branch leaves is_running true and
\* is_paused false, starts exactly one new loop thread, which has not run
\* any step of its own, and returns the dispatcher to idle with the
\* listener alive, so that the next key press can be dispatched while the
\* loop runs.
C4_StartHandsOff ==
    [][ (dpc = "start_spawn" /\ dpc' # dpc)
        => /\ is_running'
           /\ ~is_paused'
           /\ dpc' = "idle"
           /\ listener_alive'
           /\ \E t \in LoopIds :
                /\ lpc[t] = "none"
                /\ lpc'[t] = "init"
                /\ \A u \in LoopIds \ {t} : lpc'[u] = lpc[u]
      ]_vars

\* C4 witness: a Pause is being dispatched while the loop just started,
\* after an earlier release-all, has not yet taken its first step.
C4_Witness ==
    /\ dpc = "pause_set_paused"
    /\ ~is_running
    /\ ~is_paused
    /\ status.msg = "Executando..."
    /\ relAttempt # {}
    /\ \E t \in LoopIds : lpc[t] = "init"

\* C5: the Pause branch ends with is_running false and is_paused true, and
\* its release step attempts the release of the left button, of the right
\* button and of the custom key when one is set, whichever of these
\* releases fail; none of the three stays held.
C5_PauseReleasesAll ==
    [][ (dpc = "pause_release" /\ dpc' # dpc)
        => /\ ~is_running'
           /\ is_paused'
           /\ BtnLeft \in relAttempt'
           /\ BtnRight \in relAttempt'
           /\ custom_key # NoKey => custom_key \in relAttempt'
           /\ held' \cap ({BtnLeft, BtnRight, custom_key}) = {}
           /\ dpc' = "idle"
      ]_vars

\* C5 witness: a Pause has completed while a loop is in the middle of a
\* hold of the custom key; the key's release was attempted and it is no
\* longer held.
C5_Witness ==
    /\ dpc = "idle"
    /\ ~is_running
    /\ is_paused
    /\ status.msg = "Pausado"
    /\ custom_key # NoKey
    /\ custom_key \in relAttempt
    /\ held = {}
    /\ \E t \in LoopIds : lpc[t] = "release" /\ lact[t] = "hold" /\ linp[t] = custom_key /\ lpost[t] = 0

\* C6: once a Pause has been dispatched with no Start or Exit after it and
\* every loop has left its while loop and made its final release, no input
\* is held.
C6_NothingHeldAfterPause ==
    ( /\ is_paused
      /\ dpc = "idle"
      /\ \A t \in LoopIds : lpc[t] \in {"none", "final_emit"} )
    => held = {}

\* C6 witness: a loop halted by a Pause that arrived after the press of a
\* hold of the custom key has made its final release.
C6_Witness ==
    /\ is_paused
    /\ dpc = "idle"
    /\ held = {}
    /\ \E t \in LoopIds :
         /\ lpc[t] = "final_emit"
         /\ lact[t] = "hold"
         /\ lpost[t] = 0
         /\ \A u \in LoopIds \ {t} : lpc[u] = "none"
    /\ \E k \in relAttempt : k.t \notin {"Button"}

\* C7: the Exit branch schedules the shutdown timer only after it has
\* called _release_all in the same callback, and the window closes and the
\* listeners stop only after closeEvent has called _release_all.
C7_ExitReleasesBeforeShutdown ==
    [][ /\ (closeTimer' /\ ~closeTimer) => dRel
        /\ (window' = "closed" /\ window # "closed") => gRel
        /\ (~listener_alive' /\ listener_alive) => gRel
      ]_vars

\* C7 witness: the window was closed by the timer of an Exit pressed while
\* nothing had ever been started (is_running was false): the release-all of
\* the Exit branch is the latest one recorded before closeEvent's.
C7_Witness ==
    /\ window = "closed"
    /\ ~listener_alive
    /\ gRel
    /\ ~closeTimer
    /\ status.msg = "Pronto"
    /\ relAttempt # {}
    /\ ActiveLoops = {}

\* C8: a loop that was active when a Pause or an Exit was dispatched
\* performs at most one action (a press that took effect) after it.
C8_AtMostOneActionAfterStop == \A t \in LoopIds : lpost[t] <= 1

\* C9: in Hold mode, when a loop is about to press again, the milliseconds
\* it has slept since its previous press are holdDurationMs +
\* interClickDelayMs.
C9_HoldCycle ==
    \A t \in LoopIds :
        ( /\ lpc[t] = "sel"
          /\ SelectedInput # NoKey
          /\ lact[t] = "hold"
          /\ lpace[t].act = "hold" )
        => lel[t] = lpace[t].hold + lpace[t].delay

\* C10: a loop that reaches its action with the kind custom and no custom
\* key presses nothing, emits the error status and leaves the while loop;
\* from there its thread makes the final release-all, emits the terminal
\* status and ends, without another iteration and without an exception.
C10_MissingCustomKey ==
    [][ \A t \in LoopIds :
          /\ ( /\ lpc[t] = "sel"
               /\ lpc'[t] # lpc[t]
               /\ button_type = "custom"
               /\ custom_key = NoKey )
             => /\ lpc'[t] = "final"
                /\ held' = held
                /\ status' = Status("Erro: Nenhuma tecla customizada selecionada", "error")
          /\ (lpc[t] = "final" /\ lpc'[t] # lpc[t]) => lpc'[t] = "final_emit"
          /\ (lpc[t] = "final_emit" /\ lpc'[t] # lpc[t])
             => (lpc'[t] = "none" /\ status'.msg = "Parado")
      ]_vars

\* C10 witness: a loop in its first iteration (it has performed no action)
\* has left the while loop on the missing custom key, nothing held.
C10_Witness ==
    /\ button_type = "custom"
    /\ custom_key = NoKey
    /\ is_running
    /\ held = {}
    /\ status.msg = "Erro: Nenhuma tecla customizada selecionada"
    /\ \E t \in LoopIds : lpc[t] = "final" /\ lact[t] = "none"

\* C11: a loop thread ends, its terminal status emitted, only after it has
\* made its final release-all.
C11_ReleaseBeforeTerminalStatus ==
    [][ \A t \in LoopIds :
          (lpc[t] # "none" /\ lpc'[t] = "none") => lpc[t] = "final_emit"
      ]_vars

\* C12: a loop inside an iteration (pointer move, press, release) goes on
\* to the rest of the iteration or to the next flag check; it leaves the
\* while loop from there only on a missing custom key.
C12_FailuresCaughtInIteration ==
    [][ \A t \in LoopIds :
          (lpc[t] \in {"move_y", "sel", "release"} /\ lpc'[t] # lpc[t])
          => \/ lpc'[t] \in {"sel", "release", "check"}
             \/ /\ lpc[t] = "sel"
                /\ button_type = "custom"
                /\ custom_key = NoKey
                /\ lpc'[t] = "final"
      ]_vars

\* C13: while the coordinate capture is armed, a mouse press at (x, y), of
\* any button, sets the target coordinate to (x, y), disarms the capture and
\* persists saved_x = x and saved_y = y.
C13_CaptureSetsAndPersists ==
    [][ /\ (mpc = "idle" /\ mpc' # "idle")
           => /\ capture_mode
              /\ \E p \in Points : saved_x' = SomeCoord(p[1]) /\ my' = SomeCoord(p[2])
        /\ (mpc = "set_y" /\ mpc' # "set_y")
           => saved_y' = my /\ saved_x' = saved_x
        /\ (mpc = "disarm" /\ mpc' # "disarm")
           => ~capture_mode' /\ saved_x' = saved_x /\ saved_y' = saved_y
        /\ (mpc = "persist" /\ mpc' # "persist")
           => /\ mpc' = "idle"
              /\ ~capture_mode'
              /\ saved_x' = saved_x /\ saved_y' = saved_y
              /\ config'.saved_x = saved_x /\ config'.saved_y = saved_y
              /\ \E p \in Points : saved_x = SomeCoord(p[1]) /\ saved_y = SomeCoord(p[2])
      ]_vars

\* A press at (7, 9) was captured over a stored (134, 902).
C13_Witness ==
    /\ mpc = "idle"
    /\ ~capture_mode
    /\ saved_x = SomeCoord(7) /\ saved_y = SomeCoord(9)
    /\ config.saved_x = SomeCoord(7) /\ config.saved_y = SomeCoord(9)
    /\ status.msg = "Coordenada capturada!"

\* C14: once the timeout of a hotkey capture has elapsed with no key, a key
\* press changes no binding.
C14_NoRebindAfterTimeout ==
    [][ keyCap = "timed_out"
        => /\ key_start' = key_start
           /\ key_pause' = key_pause
           /\ key_exit' = key_exit
           /\ config'.key_start = config.key_start
           /\ config'.key_pause = config.key_pause
           /\ config'.key_exit = config.key_exit
      ]_vars

\* C15: at most one capture is armed among the coordinate capture, the
\* hotkey capture of a slot and the custom-key capture.
C15_AtMostOneCaptureArmed ==
    LET armed ==
          (IF capture_mode THEN {"coordinate"} ELSE {})
          \cup (IF gpc = "key_selector" /\ keyCap = "armed" THEN {"custom_key"} ELSE {})
          \cup { slot \in HotkeySlots :
                   gpc = RebindPc(slot) /\ keyCap \in {"armed", "timed_out"} }
    IN Cardinality(armed) <= 1

\* C16: for a valid key name s (the name of a key or a single character)
\* _key_to_string(_string_to_key(s)) is s lower-cased and stripped.
C16_KeyNameRoundTrip ==
    window = "open" =>
        \A slot \in {"start", "pause"} :
            LET s == IF slot = "start" THEN config.key_start ELSE config.key_pause
                key == IF slot = "start" THEN key_start ELSE key_pause
                clean == StripStr(LowerStr(s))
            IN (s # JsonNull /\ (clean \in KeyEnumNames \/ Len(clean) = 1))
               => KeyToString(key) = clean

\* C17: _string_to_key returns a key token for every input, and Key.f1 for
\* an input that is neither the name of a key, with or without the prefix,
\* nor a single character.
C17_StringToKeyTotal ==
    window = "open" =>
        \A slot \in {"start", "pause"} :
            LET s == IF slot = "start" THEN config.key_start ELSE config.key_pause
                key == IF slot = "start" THEN key_start ELSE key_pause
                clean == StripStr(LowerStr(s))
            IN /\ key.t \in {"Key", "str"}
               /\ (\/ s = JsonNull
                   \/ /\ clean \notin KeyEnumNames
                      /\ (<<"_">> \o clean) \notin KeyEnumNames
                      /\ Len(clean) # 1)
                  => key = KeyF1

\* C18: while a slot is bound to a character key c, loaded from the stored
\* name or set by capture, a press of c is dispatched to that slot (or to a
\* slot bound to the same key that comes before it in the dispatch order).
C18_CharacterBindingDispatches ==
    window = "open" =>
        \A slot \in HotkeySlots :
            LET b == CASE slot = "start" -> key_start
                       [] slot = "pause" -> key_pause
                       [] slot = "exit" -> key_exit
                taken == CASE slot = "start" -> {"start"}
                           [] slot = "pause" -> {"start", "pause"}
                           [] slot = "exit" -> {"start", "pause", "exit"}
            IN (b.t \in {"str", "KeyCode"} /\ Len(b.s) = 1)
               => DispatchBranch(KeyCode(b.s[1])) \in taken

\* C19: a key press whose normalized value equals none of the three
\* normalized bindings takes no branch, and the callback returns with
\* is_running, is_paused, the coordinate, the bindings and the loops as they
\* were and no release made.
C19_UnboundKeyChangesNothing ==
    /\ [](\A k \in PressedKeys :
            NormalizeKey(k) \notin
                {NormalizeKey(key_start), NormalizeKey(key_pause), NormalizeKey(key_exit)}
            => DispatchBranch(k) = "none")
    /\ [][ \A k \in PressedKeys :
             ( /\ NormalizeKey(k) \notin
                     {NormalizeKey(key_start), NormalizeKey(key_pause), NormalizeKey(key_exit)}
               /\ KeyPress(k) )
             => /\ dpc' = "idle"
                /\ UNCHANGED << is_running, is_paused, saved_x, saved_y, key_start,
                                key_pause, key_exit, lpc, lpost, held, relAttempt, dRel >>
          ]_vars

\* A loop is running and holds an input while the listener waits for a key,
\* and a key that matches no binding can be pressed.
C19_Witness ==
    /\ dpc = "idle"
    /\ listener_alive
    /\ is_running
    /\ ActiveLoops # {}
    /\ held # {}
    /\ \E k \in PressedKeys :
         NormalizeKey(k) \notin
             {NormalizeKey(key_start), NormalizeKey(key_pause), NormalizeKey(key_exit)}

\* C20: a step of the keyboard listener callback or of the mouse listener
\* callback writes no widget state (the enabled state of the capture
\* button, the message box); such writes are steps of the GUI thread.
C20_WidgetsWrittenByGuiThread ==
    [][ (mpc' # mpc \/ dpc' # dpc)
        => (capture_enabled' = capture_enabled /\ msgbox' = msgbox)
      ]_vars

\* C21: when an iteration presses a mouse button the pointer is at the
\* target coordinate, the iteration having moved it there before the press.
C21_MoveBeforeMousePress ==
    [][ \A t \in LoopIds :
          ( /\ lpc[t] = "sel"
            /\ lpc'[t] \in {"check", "release"}
            /\ SelectedInput \in {BtnLeft, BtnRight} )
          => pointer = << saved_x, saved_y >>
      ]_vars

\* C22: the pacing sleep of an iteration is that of the action the
\* iteration performed.
C22_PacingMatchesAction ==
    \A t \in LoopIds : lpace[t] # NoPace => lpace[t].act = lact[t]

\* C23: an iteration that starts (the flag test passed) uses the input
\* kind selected on the radio buttons at that moment.
C23_IterationUsesCurrentKind ==
    [][ \A t \in LoopIds :
          (lpc[t] = "check" /\ lpc'[t] \in {"move_y", "sel"})
          => button_type = ButtonOfId(checkedId)
      ]_vars

\* C24: a hotkey capture that consumes key K for a slot persists for that
\* slot the canonical name of K: the name of a named key without its
\* prefix, the character of a character key, lower-cased.
C24_CapturePersistsCanonicalName ==
    [][ \A slot \in HotkeySlots :
          LET old == CASE slot = "start" -> key_start
                       [] slot = "pause" -> key_pause
                       [] slot = "exit" -> key_exit
              new == CASE slot = "start" -> key_start'
                       [] slot = "pause" -> key_pause'
                       [] slot = "exit" -> key_exit'
              name == CASE slot = "start" -> config'.key_start
                        [] slot = "pause" -> config'.key_pause
                        [] slot = "exit" -> config'.key_exit
          IN ( /\ gpc \in {RebindPc(slot), TkCapturePc(slot)}
               /\ keyCap \in {"armed", "timed_out"}
               /\ new # old )
             => name = LowerStr(IF new.t = "Key" /\ new.s # <<>> /\ Head(new.s) = "_"
                                THEN Tail(new.s) ELSE new.s)
      ]_vars

\* C25: _normalize_key gives for a named key its lower-cased name without
\* the leading underscores, for a character key its lower-cased character
\* and for a raw string its lower-case form; a character key and the raw
\* string of the same character get equal values.
C25_NormalizeKeyValues ==
    window = "open" =>
        \A key \in PressedKeys \cup {key_start, key_pause, key_exit} :
            /\ key.t = "Key" => NormalizeKey(key) = LStripUnderscore(LowerStr(key.s))
            /\ key.t = "str" => NormalizeKey(key) = LowerStr(key.s)
            /\ key.t = "KeyCode"
               => /\ NormalizeKey(key) = LowerStr(key.s)
                  /\ NormalizeKey(key) = NormalizeKey(RawStr(key.s))

\* C26: a key that an armed hotkey capture or custom-key capture consumes
\* is not dispatched as well: while a capture can consume key k, the
\* keyboard listener does not take a Start, Pause or Exit branch for k.
C26_CapturedKeyNotDispatched ==
    \A k \in PressedKeys :
        ( \/ gpc = "key_selector" /\ keyCap = "armed" /\ k \in CustomKeys
          \/ /\ gpc \in { RebindPc(slot) : slot \in HotkeySlots }
             /\ keyCap \in {"armed", "timed_out"} )
        => ~(listener_alive /\ dpc = "idle" /\ DispatchBranch(k) # "none")

C28_ExitEmitsStatus ==
    [][ (dpc \in {"exit_set_paused", "exit_release", "exit_timer"} /\ dpc' = "idle")
        => status'.msg \notin {"Pronto", "Executando...", "Pausado"} ]_vars

\* C29: coordinate capture is one-shot and otherwise inert: a mouse release,
\* and any mouse event while capture is not armed, changes neither the target
\* coordinate nor capture_mode nor the stored saved_x/saved_y; these change
\* only in the handler of a press taken while armed, which leaves capture
\* disarmed, and capture is armed again only by the capture button.
C29_CaptureOneShotAndInert ==
    [][ /\ \A p \in Points, b \in Buttons, pressed \in BOOLEAN :
             (MouseClick(p[1], p[2], b, pressed) /\ ~(capture_mode /\ pressed))
             => UNCHANGED << saved_x, saved_y, capture_mode, config >>
        /\ (\/ saved_x' # saved_x
            \/ saved_y' # saved_y
            \/ config'.saved_x # config.saved_x
            \/ config'.saved_y # config.saved_y
            \/ (capture_mode /\ ~capture_mode'))
           => mpc' # mpc
        /\ (mpc = "idle" /\ mpc' # "idle") => capture_mode
        /\ (mpc # "idle" /\ mpc' = "idle") => ~capture_mode'
        /\ (~capture_mode /\ capture_mode')
           => (mpc = "idle" /\ capture_enabled /\ ~capture_enabled')
      ]_vars

\* A press at (134, 902) was captured and capture is disarmed, the mouse
\* listener running: every mouse event is now delivered unarmed.
C29_Witness ==
    /\ mpc = "idle"
    /\ mouse_listener_alive
    /\ ~capture_mode
    /\ capture_enabled
    /\ saved_x = SomeCoord(134) /\ saved_y = SomeCoord(902)
    /\ config.saved_x = SomeCoord(134) /\ config.saved_y = SomeCoord(902)
    /\ status.msg = "Coordenada capturada!"

\* C30: when the rebind-hotkeys dialog is closed, by whichever of its exits,
\* the global keyboard listener stopped at its opening is running again.
C30_ListenerRunsAfterDialog ==
    [][ (gpc \in {"keybind", "tk_keybind"} /\ gpc' = "idle") => listener_alive' ]_vars

\* C31: under fair scheduling of the loop threads, a loop thread that
\* exists while is_running is false has eventually ended, unless is_running
\* was set again by a later Start; and the step in which a loop thread ends
\* emits its terminal status.
C31_StoppedLoopTerminates ==
    /\ \A t \in LoopIds :
         (lpc[t] # "none" /\ ~is_running) ~> (lpc[t] = "none" \/ is_running)
    /\ [][ \A t \in LoopIds :
             (lpc[t] # "none" /\ lpc'[t] = "none")
             => (status'.sev = "error" /\ status'.msg \in {"Parado", "Erro: excecao"}) ]_vars

\* A loop thread in the sleep after a press while is_running is false: the
\* stop was dispatched during its iteration.
C31_Witness ==
    \E t \in LoopIds : lpc[t] = "release" /\ ~is_running /\ dpc = "idle"

\* C32: once the window is closed, the stored configuration holds the
\* selections in force: the button kind, the action, the two timings and
\* the saved coordinate of the store are those of the engine.
C32_StoreEqualsSelectionsAtShutdown ==
    window = "closed"
    => /\ config.button_type = button_type
       /\ config.action_type = action_type
       /\ config.click_delay_ms = click_delay_ms
       /\ config.hold_duration_ms = hold_duration_ms
       /\ config.saved_x = saved_x
       /\ config.saved_y = saved_y

\* C33: while the program runs, the click delay of the engine is at least
\* 1 ms and the hold duration at least 50 ms, whatever the stored file held.
C33_TimingsAtLeastMinimum ==
    window = "open" => (click_delay_ms >= DelaySpinMin /\ hold_duration_ms >= HoldSpinMin)

\* C34: load_config on a file holding a JSON object returns the defaults
\* overridden key by key: every documented key is present, with the file's
\* value when the file has the key and the default otherwise, and every key
\* of the file, unknown ones included, is kept with its value.
C34_LoadMergesOverDefaults ==
    [][ (window = "closed" /\ window' = "open" /\ IsObject(config))
        => /\ \A k \in DOMAIN default_config :
                /\ k \in DOMAIN config'
                /\ config'[k] = IF k \in DOMAIN config THEN config[k] ELSE default_config[k]
           /\ \A k \in DOMAIN config : k \in DOMAIN config' /\ config'[k] = config[k]
      ]_vars

\* Loaded from a file with action_type and an unknown key and without
\* button_type: the stored action, the default button, the unknown key kept.
C34_Witness ==
    /\ window = "open"
    /\ "extra" \in DOMAIN config
    /\ config.extra = <<"x">>
    /\ config.action_type = "hold"
    /\ config.button_type = "esquerdo"

\* C35: load_config on a file that is absent, cannot be parsed or holds no
\* object at the top returns exactly the default configuration, and the
\* program starts (nothing is raised).
C35_LoadFallsBackToDefaults ==
    [][ (window = "closed" /\ ~IsObject(config))
        => (config' = default_config /\ window' = "open") ]_vars

\* Started on the default configuration; in SpecLoad every object file
\* overrides or adds a key, so the file held no object.
C35_Witness ==
    /\ window = "open"
    /\ config = default_config
    /\ button_type = "esquerdo" /\ action_type = "click"
    /\ status.msg = "Pronto"

\* C36: whenever is_running is true and the dispatcher is not inside a
\* callback, an Execution Loop thread exists.
C36_RunningImpliesLoopActive ==
    (is_running /\ dpc = "idle") => ActiveLoops # {}

\* C37: every pointer move of a loop goes to a pair written by one capture
\* or loaded together at start-up: (134, 902), the stored pair and a click
\* point, or (7, 9), the other click point.
C37_MoveTargetsOneCapture ==
    [][ \A t \in LoopIds :
          (lpc[t] = "move_y" /\ lpc'[t] = "sel")
          => pointer' \in { << SomeCoord(p[1]), SomeCoord(p[2]) >> : p \in Points } ]_vars

\* C38: one key press takes one branch, the first in the order Start,
\* Pause, Exit whose binding matches, also when the key is bound to more
\* than one slot; the callback then stays in that branch until it returns.
C38_FirstMatchingSlotFires ==
    [][ /\ \A k \in PressedKeys :
             (dpc = "idle" /\ dpc' # "idle" /\ KeyPress(k))
             => LET n == NormalizeKey(k) IN
                IF n = NormalizeKey(key_start)
                THEN dpc' \in {"start_warn", "start_set_paused"}
                ELSE IF n = NormalizeKey(key_pause)
                THEN dpc' = "pause_set_paused"
                ELSE dpc' = "exit_set_paused"
        /\ (dpc \in {"start_warn", "start_set_paused", "start_spawn"} /\ dpc' # dpc)
           => dpc' \in {"start_spawn", "idle"}
        /\ (dpc \in {"pause_set_paused", "pause_release"} /\ dpc' # dpc)
           => dpc' \in {"pause_release", "idle"}
        /\ (dpc \in {"exit_set_paused", "exit_release", "exit_timer"} /\ dpc' # dpc)
           => dpc' \in {"exit_release", "exit_timer", "idle"}
      ]_vars

\* A key bound to both Pause and Exit, and not to Start, was pressed: the
\* callback is in the Pause branch.
C38_Witness ==
    /\ dpc = "pause_set_paused"
    /\ NormalizeKey(key_pause) = NormalizeKey(key_exit)
    /\ NormalizeKey(key_pause) # NormalizeKey(key_start)

\* C39: while the program runs, the custom key is unset exactly when the
\* stored custom_key_name is "Nenhuma".
C39_CustomKeyAgreesWithName ==
    window = "open"
    => ((custom_key = NoKey) <=> (config.custom_key_name = default_config.custom_key_name))

====
